---- MODULE Spec2Model ----
(***************************************************************************)
(* Model of pysap/data.py: the sample-data acquisition pipeline            *)
(* (get_sample_data, md5_sum_file, download_file, copy_file).              *)
(*                                                                         *)
(* File contents are sequences of extents <<tag, lo, hi>>: the bytes       *)
(* lo..hi-1 of the remote source ("src") or foreign bytes ("junk").  Two   *)
(* files are byte-identical iff their extent sequences are equal.          *)
(***************************************************************************)
EXTENDS Integers, Sequences, FiniteSets, TLC

VARIABLES
    fs,      \* the filesystem: a function from the existing paths to contents
    dirs,    \* the directories that exist
    pc,      \* per caller: the control point of the running call
    api,     \* per caller: the top-level function that was called
    df,      \* per caller: the locals of the running download_file frame
    gs,      \* per caller: the locals of the running get_sample_data frame
    result,  \* per caller: how the top-level call ended
    log,     \* per caller: the I/O events of the top-level call so far
    pre,     \* per caller: the filesystem when the top-level call started
    args,    \* per caller: the arguments of the top-level call
    ncalls,  \* number of top-level calls made so far
    catalog, \* the module global SAMPLE_DATE_FILES as it is now
    stdout   \* the current line of sys.stdout, as progress_bar left it

vars ==
    <<fs, dirs, pc, api, df, gs, result, log, pre, args, ncalls, catalog, stdout>>

---------------------------------------------------------------------------
(* Bounds *)

\* Number of top-level calls in a behaviour.
MaxCalls == 3
\* Size in bytes of the small remote source (fits in one chunk).
SmallSize == 100
\* Size in bytes of the large remote source (needs a second chunk).
LargeSize == 10000

\* Largest numerator and denominator of the ratios handed to progress_bar on
\* its own.
MaxNum == 30
MaxDen == 10

\* Number of download_file calls the two concurrent callers make in all.
RaceCalls == 2

\* The sequential caller; download_file and friends are plain blocking calls.
Procs == {1}

---------------------------------------------------------------------------
(* Program constants *)

chunk_size == 8192

DATADIR == "~/.local/share/pysap"
PACKAGEDIR == "site-packages/pysap"
OtherDir == "/tmp/elsewhere"
Dirs == {DATADIR, OtherDir}

FtpRoot == "ftp://ftp.cea.fr/pub/unati/nsap/pysap/datasets"

---------------------------------------------------------------------------
(* File contents *)

Min(a, b) == IF a < b THEN a ELSE b

Empty == <<>>
Extent(tag, lo, hi) == <<tag, lo, hi>>
ExtLen(e) == e[3] - e[2]

RECURSIVE Size(_)
Size(c) == IF c = <<>> THEN 0 ELSE ExtLen(Head(c)) + Size(Tail(c))

\* Append the bytes of extent e to content c (file.write on a handle at EOF).
Write(c, e) ==
    IF ExtLen(e) = 0 THEN c
    ELSE IF c # <<>> /\ c[Len(c)][1] = e[1] /\ c[Len(c)][3] = e[2]
         THEN [c EXCEPT ![Len(c)] = Extent(e[1], c[Len(c)][2], e[3])]
         ELSE Append(c, e)

\* The n bytes of content c that start at byte offset pos (a read of n bytes).
RECURSIVE Slice(_, _, _)
Slice(c, pos, n) ==
    IF c = <<>> \/ n <= 0 THEN <<>>
    ELSE LET e == Head(c)
             l == ExtLen(e)
         IN IF pos >= l THEN Slice(Tail(c), pos - l, n)
            ELSE LET take == Min(n, l - pos)
                     piece == Extent(e[1], e[2] + pos, e[2] + pos + take)
                 IN <<piece>> \o Slice(Tail(c), 0, n - take)

RECURSIVE WriteAll(_, _)
WriteAll(c, es) == IF es = <<>> THEN c ELSE WriteAll(Write(c, Head(es)), Tail(es))

---------------------------------------------------------------------------
(* md5_sum_file *)

md5_chunk == 8192

TagCode(t) == IF t = "src" THEN 1 ELSE 2

\* hashlib's hexdigest of the message absorbed so far: a fingerprint of the
\* byte string, whatever the chunks it was fed in.
RECURSIVE Mix(_, _)
Mix(h, m) ==
    IF m = <<>> THEN h
    ELSE Mix((h * 31 + TagCode(Head(m)[1]) * 3 + Head(m)[2] * 5 + Head(m)[3] * 11)
                 % 1000003, Tail(m))

hexdigest(m) == <<"md5", Mix(7, m)>>

\* The read loop: f.read(8192) until an empty read, m.update(data) each time.
RECURSIVE Md5Loop(_, _, _)
Md5Loop(c, pos, m) ==
    LET data == Slice(c, pos, md5_chunk)
    IN IF data = <<>> THEN m
       ELSE Md5Loop(c, pos + Size(data), WriteAll(m, data))

md5_sum_file(c) == hexdigest(Md5Loop(c, 0, <<>>))

---------------------------------------------------------------------------
(* progress_bar *)

\* Line 180: the default bar_length and maxsize of progress_bar.
bar_length == 20
maxsize == 40

Max(a, b) == IF a > b THEN a ELSE b

\* int(x) of the non-negative rational x = num / den: the integer part.
IntPart(num, den) == num \div den

\* round(x) of the non-negative rational x = num / den, as Python 3 rounds:
\* to the nearest integer, a tie to the even one.
Round(num, den) ==
    LET q == num \div den
        r == num % den
    IN IF 2 * r < den THEN q
       ELSE IF 2 * r > den THEN q + 1
       ELSE IF q % 2 = 0 THEN q ELSE q + 1

\* The length of s * n for a one-character string s: nothing when n < 0.
Repeat(n) == Max(n, 0)

\* The terminal line before anything was written on it.
NoText == [ratio |-> <<0, 1>>, filled |-> -1, empty |-> -1, progress |-> -1,
           title |-> -1]

\* Lines 194-200: the line progress_bar writes, by the number of "=" and of
\* " " between the brackets, the percentage and the width of the justified
\* title; `ratio` records the argument, a rational <<num, den>>.
progress_bar(ratio, title) ==
    LET progress == IntPart(ratio[1] * 100, ratio[2])
        block == Round(bar_length * ratio[1], ratio[2])
    IN [ratio |-> ratio,
        filled |-> Repeat(block),
        empty |-> Repeat(bar_length - block),
        progress |-> progress,
        title |-> Max(Len(title), maxsize)]

---------------------------------------------------------------------------
(* The catalog and the remote sources *)

None == <<>>

Url(fname) == [root |-> FtpRoot, fname |-> fname]

PmriUrl == Url("orange_phantom_3d_pmri_images.npy")
FitsUrl == Url("M31_128.fits")
Urls == {PmriUrl, FitsUrl}

\* The size of what the remote serves under a url.
SourceSize(url) == IF url.fname = "M31_128.fits" THEN SmallSize ELSE LargeSize

\* The complete remote source, and the local file of the same name when the
\* locator happens to name one.
Source(url) == <<Extent("src", 0, SourceSize(url))>>

SAMPLE_DATE_FILES ==
    [n \in {"3d-pmri", "astro-fits"} |->
        IF n = "3d-pmri"
        THEN [k \in {"url", "md5sum", "dtype"} |->
                CASE k = "url" -> PmriUrl
                  [] k = "md5sum" -> md5_sum_file(Source(PmriUrl))
                  [] OTHER -> <<"numpy.complex">>]
        ELSE [k \in {"url", "md5sum"} |->
                CASE k = "url" -> FitsUrl
                  [] OTHER -> None]]

\* Names a caller may ask for: the catalog's and one that is not in it.
Names == DOMAIN SAMPLE_DATE_FILES \cup {"no-such-data"}

\* str.format(PYSAP=PACKAGEDIR) on a locator.
Format(url) == IF url.root = "{PYSAP}" THEN [url EXCEPT !.root = PACKAGEDIR] ELSE url

---------------------------------------------------------------------------
(* Paths and the filesystem *)

\* os.path.basename(urlparse(url).path), as <<name, suffix>>.
Basename(url) == <<url.fname, "">>
\* fname + ".part"
PartName(fname) == <<fname[1], ".part">>
\* os.path.join(data_dir, fname)
Join(data_dir, fname) == <<data_dir, fname[1], fname[2]>>

Exists(f, path) == path \in DOMAIN f
Remove(f, path) == [q \in DOMAIN f \ {path} |-> f[q]]
Put(f, path, c) == [q \in DOMAIN f \cup {path} |-> IF q = path THEN c ELSE f[q]]
\* A slip: the file is copied to dst and src is left behind.
MoveKeepsSource(f, src, dst) == Put(f, dst, f[src])

\* shutil.move(src, dst): a rename, replacing dst.
Move(f, src, dst) == Remove(Put(f, dst, f[src]), src)

download_fname(url, data_dir) == Join(data_dir, Basename(url))
temp_fname(url, data_dir) == Join(data_dir, PartName(Basename(url)))

---------------------------------------------------------------------------
(* Frames *)

Unknown == <<"?">>
Known(n) == <<"int", n>>
IsInt(t) == t[1] = "int"

NoUrl == [root |-> "", fname |-> ""]
NoFrame == [url |-> NoUrl, data_dir |-> "", resume |-> FALSE, overwrite |-> FALSE,
            depth |-> 0, local_file |-> "None", bytes_so_far |-> 0,
            total_size |-> Unknown, data |-> -1]
NoGs == [dataset_name |-> "", datadir |-> "", isfile |-> FALSE, path |-> <<>>,
         dataset |-> <<>>]
NoResult == [kind |-> "none", value |-> <<>>]
NoArgs == [url |-> NoUrl, data_dir |-> "", resume |-> FALSE, overwrite |-> FALSE]
Args(url, data_dir, resume, overwrite) ==
    [url |-> url, data_dir |-> data_dir, resume |-> resume, overwrite |-> overwrite]

Ev(e, a) == [ev |-> e, arg |-> a]
Logged(p, e) == \E i \in 1..Len(log[p]) : log[p][i].ev = e
Count(p, e) == Cardinality({i \in 1..Len(log[p]) : log[p][i].ev = e})

Init ==
    /\ fs = <<>>
    /\ dirs = {}
    /\ pc = [p \in Procs |-> "idle"]
    /\ api = [p \in Procs |-> "none"]
    /\ df = [p \in Procs |-> NoFrame]
    /\ gs = [p \in Procs |-> NoGs]
    /\ result = [p \in Procs |-> NoResult]
    /\ log = [p \in Procs |-> <<>>]
    /\ pre = [p \in Procs |-> <<>>]
    /\ args = [p \in Procs |-> NoArgs]
    /\ ncalls = 0
    /\ catalog = SAMPLE_DATE_FILES
    /\ stdout = NoText

---------------------------------------------------------------------------
(* How a frame ends *)

\* A slip: the checksum of lines 143-147 is left out.
StageSkipsVerify == "load"

\* Lines 137-144: what get_sample_data does once the file is acquired.
StageAfterAcquire == "verify"

\* download_file or copy_file returns `path` to its caller: the top-level
\* caller, or get_sample_data (whose locals are `frame`), which goes on to the
\* checksum.
Return(p, caller, frame, path) ==
    IF caller = "get_sample_data"
    THEN /\ pc' = [pc EXCEPT ![p] = StageAfterAcquire]
         /\ gs' = [gs EXCEPT ![p] = [frame EXCEPT !.path = path]]
         /\ UNCHANGED result
    ELSE /\ pc' = [pc EXCEPT ![p] = "done"]
         /\ result' = [result EXCEPT ![p] = [kind |-> "return", value |-> path]]
         /\ gs' = [gs EXCEPT ![p] = frame]

\* An exception leaves every frame of the call: nothing in get_sample_data
\* catches it.
Raise(p, frame, err) ==
    /\ pc' = [pc EXCEPT ![p] = "done"]
    /\ result' = [result EXCEPT ![p] = [kind |-> "raise", value |-> <<err>>]]
    /\ gs' = [gs EXCEPT ![p] = frame]

\* A slip: the finally clause leaves the handle as it is.
ClosedLeak(h) == h

\* The finally clause: the handle is closed if it was opened.
Closed(h) == IF h = "open" THEN "closed" ELSE h

---------------------------------------------------------------------------
(* download_file *)

\* A slip: the overwrite flag read the wrong way round.
AlreadyThereInverted(exists, overwrite) == exists /\ overwrite

\* Lines 262-266: the file is already there and is not to be overwritten.
AlreadyThere(exists, overwrite) == exists /\ ~overwrite

\* A slip: the .part file is kept although overwrite is set.
ClearTempKept(f, temp, overwrite) == f

\* Lines 270-272: an existing .part file is removed when overwrite is set.
ClearTemp(f, temp, overwrite) ==
    IF Exists(f, temp) /\ overwrite THEN Remove(f, temp) ELSE f

\* Lines 246-272: make the directory, name the files, and either return the
\* file that is already there or clear the way for the transfer.
Enter(p, caller, frame, url, data_dir, resume, overwrite, depth) ==
    LET final == download_fname(url, data_dir)
        temp == temp_fname(url, data_dir)
        fs1 == IF Exists(fs, final) /\ overwrite THEN Remove(fs, final) ELSE fs
        fs2 == ClearTemp(fs1, temp, overwrite)
    IN /\ dirs' = dirs \cup {data_dir}
       /\ df' = [df EXCEPT ![p] =
                    [NoFrame EXCEPT !.url = url, !.data_dir = data_dir,
                                    !.resume = resume, !.overwrite = overwrite,
                                    !.depth = depth]]
       /\ IF AlreadyThere(Exists(fs, final), overwrite)
          THEN /\ fs' = fs
               /\ Return(p, caller, frame, final)
          ELSE /\ fs' = fs2
               /\ pc' = [pc EXCEPT ![p] = "probe"]
               /\ gs' = [gs EXCEPT ![p] = frame]
               /\ UNCHANGED result

\* A caller calls download_file(url, data_dir, resume, overwrite).
CallDownloadFile(p) ==
    /\ pc[p] = "idle"
    /\ ncalls < MaxCalls
    /\ \E url \in Urls, data_dir \in Dirs, resume \in BOOLEAN, overwrite \in BOOLEAN :
          /\ Enter(p, "download_file", NoGs, url, data_dir, resume, overwrite, 0)
          /\ args' = [args EXCEPT ![p] = Args(url, data_dir, resume, overwrite)]
    /\ api' = [api EXCEPT ![p] = "download_file"]
    /\ log' = [log EXCEPT ![p] = <<>>]
    /\ pre' = [pre EXCEPT ![p] = fs]
    /\ ncalls' = ncalls + 1
    /\ UNCHANGED <<catalog, stdout>>

\* Lines 277-282: the reachability probe, urlopen(url); any exception becomes
\* the "not released yet" ValueError.
Probe(p) ==
    /\ pc[p] = "probe"
    /\ log' = [log EXCEPT ![p] = Append(@, Ev("probe", 0))]
    /\ \E reachable \in BOOLEAN :
          IF reachable
          THEN /\ pc' = [pc EXCEPT ![p] = "open"]
               /\ UNCHANGED <<df, result, gs>>
          ELSE /\ UNCHANGED df
               /\ Raise(p, gs[p], "ValueError")
    /\ UNCHANGED <<fs, dirs, api, pre, args, ncalls, catalog, stdout>>

\* What the remote may answer to the ranged request of the resume branch
\* (206: the rest of the source from the offset; 200: the whole source, the
\* Range header ignored) and to the plain request of the fresh branch.
ResumeAnswers(offset, size) ==
    (IF 0 <= offset /\ offset < size THEN {"206"} ELSE {})
        \cup {"200", "HTTPError", "URLError"}
FreshAnswers == {"200", "HTTPError", "URLError"}

\* A slip: the range starts one byte too far.
RangeStartOffByOne(local_file_size) == local_file_size + 1

\* A slip: the restart keeps resume=True.
FallbackResumeKept == TRUE

\* A slip: the fresh branch opens the .part file for append.
OpenAb(f, temp) == IF Exists(f, temp) THEN f ELSE Put(f, temp, Empty)

\* A slip (what the docstring promises): the error path deletes the .part file.
AfterErrorRemoved(f, temp) == IF Exists(f, temp) THEN Remove(f, temp) ELSE f

\* Line 297: the first byte asked for, "bytes={0}-".format(local_file_size).
RangeStart(local_file_size) == local_file_size

\* Lines 303-304: the flags of the restart from scratch.
FallbackResume == FALSE
FallbackOverwrite == FALSE

\* Line 310: open(temp_fname, "wb") creates the file or truncates it.
OpenWb(f, temp) == Put(f, temp, Empty)

\* Lines 350-357: what the except and finally clauses leave on disk.
AfterError(f, temp) == f

\* A slip: the bytes already on disk are not added to the total.
TotalSizeNoOffset(content_length, bytes_so_far) == Known(content_length)

\* Line 314: the total size, int(Content-Length) + bytes_so_far.
TotalSize(content_length, bytes_so_far) == Known(content_length + bytes_so_far)

\* A slip: the count restarts at 0 although the file is opened for append.
ResumeCountZero(local_file_size) == 0

\* Line 306: bytes_so_far = local_file_size in the resume branch.
ResumeCount(local_file_size) == local_file_size

\* A slip: without a total the count itself is reported.
RatioNoPlaceholder(bytes_so_far, total_size) ==
    IF IsInt(total_size) THEN <<bytes_so_far, total_size[2]>> ELSE <<bytes_so_far, 1>>

\* Lines 332-335: the ratio handed to progress_bar, as <<numerator,
\* denominator>>; 0 when the total size is not an int.
Ratio(bytes_so_far, total_size) ==
    IF IsInt(total_size) THEN <<bytes_so_far, total_size[2]>> ELSE <<0, 1>>

\* Another invocation holds the file at path temp open.
HeldByOther(p, temp) ==
    \E q \in DOMAIN df \ {p} :
        /\ df[q].local_file = "open"
        /\ temp_fname(df[q].url, df[q].data_dir) = temp

\* A slip: open() waits while another invocation holds the file.
OpenBlockedByHolder(held) == held

\* Lines 305 and 310: open(temp_fname, ...) takes no lock and asks nobody; it
\* goes through whoever else holds the file.
OpenBlocked(held) == FALSE

\* Lines 291-310, resume branch: ask for bytes=<size of the .part file>- and
\* open the .part file for append; an HTTPError restarts from scratch.
OpenResume(p) ==
    LET f == df[p]
        temp == temp_fname(f.url, f.data_dir)
        local_file_size == Size(fs[temp])
    IN /\ pc[p] = "open"
       /\ f.resume /\ Exists(fs, temp)
       /\ \E answer \in ResumeAnswers(RangeStart(local_file_size), SourceSize(f.url)) :
             CASE answer = "HTTPError" ->
                    /\ log' = [log EXCEPT ![p] =
                                  @ \o <<Ev("request", RangeStart(local_file_size)),
                                         Ev("fallback", 0)>>]
                    /\ Enter(p, api[p], gs[p], f.url, f.data_dir,
                             FallbackResume, FallbackOverwrite, f.depth + 1)
               [] answer = "URLError" ->
                    /\ log' = [log EXCEPT ![p] =
                                  Append(@, Ev("request", RangeStart(local_file_size)))]
                    /\ Raise(p, gs[p], "URLError")
                    /\ UNCHANGED <<fs, dirs, df>>
               [] OTHER ->
                    /\ ~OpenBlocked(HeldByOther(p, temp))
                    /\ log' = [log EXCEPT ![p] =
                                  @ \o <<Ev("request", RangeStart(local_file_size)),
                                         Ev(answer, 0)>>]
                    /\ df' = [df EXCEPT ![p].data =
                                  IF answer = "206" THEN RangeStart(local_file_size) ELSE 0,
                                        ![p].local_file = "open",
                                        ![p].bytes_so_far = ResumeCount(local_file_size)]
                    /\ pc' = [pc EXCEPT ![p] = "header"]
                    /\ UNCHANGED <<fs, dirs, result, gs>>
       /\ UNCHANGED <<api, pre, args, ncalls, catalog, stdout>>

\* Lines 307-310, fresh branch: urlopen(url), then create or truncate the
\* .part file.  An HTTPError is re-raised as the module's Exception (350-352).
OpenFresh(p) ==
    LET f == df[p]
        temp == temp_fname(f.url, f.data_dir)
    IN /\ pc[p] = "open"
       /\ ~(f.resume /\ Exists(fs, temp))
       /\ \E answer \in FreshAnswers :
             /\ log' = [log EXCEPT ![p] = @ \o <<Ev("request", -1), Ev(answer, 0)>>]
             /\ IF answer = "200"
                THEN /\ ~OpenBlocked(HeldByOther(p, temp))
                     /\ fs' = OpenWb(fs, temp)
                     /\ df' = [df EXCEPT ![p].data = 0, ![p].local_file = "open"]
                     /\ pc' = [pc EXCEPT ![p] = "header"]
                     /\ UNCHANGED <<result, gs>>
                ELSE /\ Raise(p, gs[p], IF answer = "HTTPError"
                                        THEN "Exception: error while downloading"
                                        ELSE answer)
                     /\ UNCHANGED <<fs, df>>
       /\ UNCHANGED <<dirs, api, pre, args, ncalls, catalog, stdout>>

\* Whether `except Exception` of line 315 (the package's own Exception class)
\* catches the error raised when the Content-Length header is missing.
CatchesLengthError == TRUE

\* Lines 311-318: the total size, from Content-Length plus what is on disk.
Header(p) ==
    LET f == df[p]
        content_length == SourceSize(f.url) - f.data
    IN /\ pc[p] = "header"
       /\ \E has_length \in BOOLEAN :
             IF has_length
             THEN /\ df' = [df EXCEPT ![p].total_size =
                                           TotalSize(content_length, f.bytes_so_far)]
                  /\ log' = [log EXCEPT ![p] = Append(@, Ev("length", content_length))]
                  /\ pc' = [pc EXCEPT ![p] = "read"]
                  /\ UNCHANGED <<result, gs>>
             ELSE /\ log' = [log EXCEPT ![p] = Append(@, Ev("nolength", 0))]
                  /\ IF CatchesLengthError
                     THEN /\ df' = [df EXCEPT ![p].total_size = Unknown]
                          /\ pc' = [pc EXCEPT ![p] = "read"]
                          /\ UNCHANGED <<result, gs>>
                     ELSE /\ df' = [df EXCEPT ![p].local_file = Closed(f.local_file)]
                          /\ Raise(p, gs[p], "TypeError")
       /\ UNCHANGED <<fs, dirs, api, pre, args, ncalls, catalog, stdout>>

\* Lines 322-336, one turn of the loop with a non-empty chunk: append it to the
\* .part file and count it.
ReadChunk(p) ==
    LET f == df[p]
        temp == temp_fname(f.url, f.data_dir)
        chunk == Extent("src", f.data, Min(f.data + chunk_size, SourceSize(f.url)))
    IN /\ pc[p] = "read"
       /\ f.data < SourceSize(f.url)
       /\ fs' = Put(fs, temp, Write(IF Exists(fs, temp) THEN fs[temp] ELSE Empty, chunk))
       /\ df' = [df EXCEPT ![p].data = chunk[3],
                           ![p].bytes_so_far = f.bytes_so_far + ExtLen(chunk)]
       /\ log' = [log EXCEPT ![p] =
                     @ \o <<Ev("read", ExtLen(chunk)),
                            Ev("progress", Ratio(f.bytes_so_far + ExtLen(chunk),
                                                 f.total_size))>>]
       /\ stdout' = progress_bar(Ratio(f.bytes_so_far + ExtLen(chunk), f.total_size),
                                 f.url.fname)
       /\ UNCHANGED <<dirs, pc, api, gs, result, pre, args, ncalls, catalog>>

\* Lines 324-327 and 337-359: an empty read (the end of the source, or a
\* connection that was closed early) ends the loop; the .part file is closed
\* and moved to the final name, and the final name is returned.
ReadEmpty(p) ==
    LET f == df[p]
        temp == temp_fname(f.url, f.data_dir)
        final == download_fname(f.url, f.data_dir)
    IN /\ pc[p] = "read"
       /\ log' = [log EXCEPT ![p] = Append(@, Ev("empty", f.data))]
       /\ df' = [df EXCEPT ![p].local_file = "closed"]
       /\ IF Exists(fs, temp)
          THEN /\ fs' = Move(fs, temp, final)
               /\ Return(p, api[p], gs[p], final)
          ELSE /\ fs' = fs
               /\ Raise(p, gs[p], "FileNotFoundError")
       /\ stdout' = NoText
       /\ UNCHANGED <<dirs, api, pre, args, ncalls, catalog>>

\* Lines 350-357: data.read raises; an HTTPError is re-raised as the module's
\* Exception, anything else as it is, and the finally clause closes the handle.
ReadError(p) ==
    LET f == df[p]
    IN /\ pc[p] = "read"
       /\ \E err \in {"HTTPError", "OSError"} :
             Raise(p, gs[p], IF err = "HTTPError" THEN "Exception: error while downloading"
                             ELSE err)
       /\ df' = [df EXCEPT ![p].local_file = Closed(f.local_file)]
       /\ log' = [log EXCEPT ![p] = Append(@, Ev("error", f.data))]
       /\ fs' = AfterError(fs, temp_fname(f.url, f.data_dir))
       /\ UNCHANGED <<dirs, api, pre, args, ncalls, catalog, stdout>>

---------------------------------------------------------------------------
(* copy_file *)

\* Lines 381-410: make the directory, return the copy that is already there
\* (unless overwrite), else shutil.copy2 the local file; copy2 raises when the
\* file to copy does not exist.
CopyFile(p, caller, frame, path, data_dir, overwrite, isfile) ==
    LET copy_fname == Join(data_dir, Basename(path))
        fs1 == IF Exists(fs, copy_fname) /\ overwrite THEN Remove(fs, copy_fname) ELSE fs
    IN /\ dirs' = dirs \cup {data_dir}
       /\ IF Exists(fs, copy_fname) /\ ~overwrite
          THEN /\ fs' = fs
               /\ log' = [log EXCEPT ![p] = <<>>]
               /\ Return(p, caller, frame, copy_fname)
          ELSE IF isfile
               THEN /\ fs' = Put(fs1, copy_fname, Source(path))
                    /\ log' = [log EXCEPT ![p] = <<Ev("copy", 0)>>]
                    /\ Return(p, caller, frame, copy_fname)
               ELSE /\ fs' = fs1
                    /\ log' = [log EXCEPT ![p] = <<Ev("copy", 0)>>]
                    /\ Raise(p, frame, "FileNotFoundError")

\* A caller calls copy_file(path, data_dir, overwrite).
CallCopyFile(p) ==
    /\ pc[p] = "idle"
    /\ ncalls < MaxCalls
    /\ api' = [api EXCEPT ![p] = "copy_file"]
    /\ \E path \in Urls, data_dir \in Dirs, overwrite \in BOOLEAN, isfile \in BOOLEAN :
          /\ CopyFile(p, "copy_file", NoGs, path, data_dir, overwrite, isfile)
          /\ args' = [args EXCEPT ![p] = Args(path, data_dir, FALSE, overwrite)]
    /\ pre' = [pre EXCEPT ![p] = fs]
    /\ ncalls' = ncalls + 1
    /\ UNCHANGED <<catalog, stdout>>
    /\ UNCHANGED df

---------------------------------------------------------------------------
(* get_sample_data *)

\* The directory get_sample_data hands to copy_file and download_file
\* (lines 137 and 140).
AcquireDir(datadir) == DATADIR

\* A slip: the message names the catalog's first entry only.
ListedFirstOnly == {"3d-pmri"}

\* Line 132: the names the "no sample data" message lists,
\* SAMPLE_DATE_FILES.keys().
ListedNames == DOMAIN catalog

\* A slip: `dataset` is the catalog's own entry, so a write to it is a write
\* to the catalog.
CatalogWrittenThrough(cat, name, dataset) == [cat EXCEPT ![name] = dataset]

\* Line 128: `dataset` is a deepcopy of the entry, so the writes to it (the
\* formatted url of line 135, the pops of lines 150-151) leave the catalog
\* as it is.
CatalogAfterWrite(cat, name, dataset) == cat

\* A slip: the acquisition replaces a file that is already there.
AcquireOverwriteAlways == TRUE

\* Lines 137 and 140: get_sample_data passes overwrite=False to copy_file and
\* to download_file.
AcquireOverwrite == FALSE

\* A slip: the locator is always fetched over the network.
UsesCopyNever(isfile) == FALSE

\* Line 136: copy_file is used when os.path.isfile(url) holds.
UsesCopy(isfile) == isfile

\* Lines 127-141: look the name up, format the locator, and acquire the file
\* with copy_file when the locator names a local file, else with
\* download_file(resume=True, overwrite=False).
CallGetSampleData(p) ==
    /\ pc[p] = "idle"
    /\ ncalls < MaxCalls
    /\ ncalls' = ncalls + 1
    /\ pre' = [pre EXCEPT ![p] = fs]
    /\ UNCHANGED stdout
    /\ \E dataset_name \in Names, datadir \in Dirs, isfile \in BOOLEAN :
          IF dataset_name \notin DOMAIN catalog
          THEN /\ api' = [api EXCEPT ![p] = "get_sample_data"]
               /\ UNCHANGED catalog
               /\ gs' = [gs EXCEPT ![p] = [NoGs EXCEPT !.dataset_name = dataset_name,
                                                       !.datadir = datadir,
                                                       !.isfile = isfile]]
               /\ pc' = [pc EXCEPT ![p] = "done"]
               /\ result' = [result EXCEPT ![p] =
                                [kind |-> "raise",
                                 value |-> <<"Exception: no sample data available",
                                             ListedNames>>]]
               /\ log' = [log EXCEPT ![p] = <<>>]
               /\ args' = [args EXCEPT ![p] = Args(NoUrl, datadir, FALSE, FALSE)]
               /\ UNCHANGED <<fs, dirs, df>>
          ELSE LET dataset == [catalog[dataset_name] EXCEPT !["url"] = Format(@)]
                   frame == [dataset_name |-> dataset_name, datadir |-> datadir,
                             isfile |-> isfile, path |-> <<>>, dataset |-> dataset]
               IN /\ api' = [api EXCEPT ![p] = "get_sample_data"]
                  /\ catalog' = CatalogAfterWrite(catalog, dataset_name, dataset)
                  /\ args' = [args EXCEPT ![p] =
                                  Args(dataset["url"], datadir, ~isfile, FALSE)]
                  /\ IF UsesCopy(isfile)
                     THEN /\ CopyFile(p, "get_sample_data", frame, dataset["url"],
                                     AcquireDir(datadir), AcquireOverwrite, isfile)
                          /\ UNCHANGED df
                     ELSE /\ Enter(p, "get_sample_data", frame, dataset["url"],
                                  AcquireDir(datadir), TRUE, AcquireOverwrite, 0)
                          /\ log' = [log EXCEPT ![p] = <<>>]

\* A slip: the checksum is never found wrong.
ChecksumNeverFails(dataset, content) == FALSE

\* The checksum of lines 143-147 fails: a digest is declared and the file's
\* differs from it.
ChecksumFails(dataset, content) ==
    dataset["md5sum"] # None /\ md5_sum_file(content) # dataset["md5sum"]

\* A slip: the file that fails the check is deleted.
AfterMismatchRemoved(f, path) == Remove(f, path)

\* Lines 145-147: what a failed check does to the file system: nothing, the
\* error is raised and the file stays.
AfterMismatch(f, path) == f

\* Lines 143-147: the md5 check of the acquired file.
Verify(p) ==
    LET g == gs[p]
    IN /\ pc[p] = "verify"
       /\ IF ~Exists(fs, g.path)
          THEN /\ IF g.dataset["md5sum"] # None
                  THEN Raise(p, g, "FileNotFoundError")
                  ELSE /\ pc' = [pc EXCEPT ![p] = "load"]
                       /\ UNCHANGED <<gs, result>>
               /\ UNCHANGED <<fs, log>>
          ELSE /\ log' = [log EXCEPT ![p] =
                             IF g.dataset["md5sum"] # None
                             THEN Append(@, Ev("verify", 0)) ELSE @]
               /\ IF ChecksumFails(g.dataset, fs[g.path])
                  THEN /\ Raise(p, g, "Exception: checksum verification has failed")
                       /\ fs' = AfterMismatch(fs, g.path)
                  ELSE /\ pc' = [pc EXCEPT ![p] = "load"]
                       /\ UNCHANGED <<fs, gs, result>>
       /\ UNCHANGED <<dirs, api, df, pre, args, ncalls, catalog, stdout>>

\* Lines 149-154: drop "url" and "md5sum" from the copy of the entry and call
\* the loader with the path and what is left.
Load(p) ==
    LET g == gs[p]
        options == [k \in DOMAIN g.dataset \ {"url", "md5sum"} |-> g.dataset[k]]
    IN /\ pc[p] = "load"
       /\ gs' = [gs EXCEPT ![p].dataset = options]
       /\ log' = [log EXCEPT ![p] = Append(@, Ev("load", 0))]
       /\ pc' = [pc EXCEPT ![p] = "done"]
       /\ result' = [result EXCEPT ![p] = [kind |-> "return", value |-> g.path]]
       /\ catalog' = CatalogAfterWrite(catalog, g.dataset_name, options)
       /\ UNCHANGED <<fs, dirs, api, df, pre, args, ncalls, stdout>>

---------------------------------------------------------------------------
(* The caller and the world outside *)

\* The caller takes the result; the frames are gone.
Reset(p) ==
    /\ pc[p] = "done"
    /\ pc' = [pc EXCEPT ![p] = "idle"]
    /\ api' = [api EXCEPT ![p] = "none"]
    /\ df' = [df EXCEPT ![p] = NoFrame]
    /\ gs' = [gs EXCEPT ![p] = NoGs]
    /\ result' = [result EXCEPT ![p] = NoResult]
    /\ log' = [log EXCEPT ![p] = <<>>]
    /\ pre' = [pre EXCEPT ![p] = <<>>]
    /\ args' = [args EXCEPT ![p] = NoArgs]
    /\ UNCHANGED <<fs, dirs, ncalls, catalog, stdout>>

\* Between two calls, something outside the program damages a downloaded
\* file: same size, other bytes.
Corrupt ==
    /\ \A p \in Procs : pc[p] = "idle"
    /\ ncalls < MaxCalls
    /\ \E path \in DOMAIN fs :
          /\ path[3] = ""
          /\ fs[path] # <<>>
          /\ fs[path][1][1] # "junk"
          /\ fs' = Put(fs, path, <<Extent("junk", 0, Size(fs[path]))>>)
    /\ UNCHANGED <<dirs, pc, api, df, gs, result, log, pre, args, ncalls, catalog, stdout>>

Next ==
    \/ \E p \in Procs :
        \/ CallDownloadFile(p)
        \/ Probe(p)
        \/ OpenResume(p)
        \/ OpenFresh(p)
        \/ Header(p)
        \/ ReadChunk(p)
        \/ ReadEmpty(p)
        \/ ReadError(p)
        \/ CallCopyFile(p)
        \/ CallGetSampleData(p)
        \/ Verify(p)
        \/ Load(p)
        \/ Reset(p)
    \/ Corrupt

Spec == Init /\ [][Next]_vars

\* progress_bar on its own: any caller may hand it any ratio >= 0 and any
\* title (lines 180-200).
RenderBar ==
    /\ \E num \in 0..MaxNum, den \in 1..MaxDen, url \in Urls :
          stdout' = progress_bar(<<num, den>>, url.fname)
    /\ UNCHANGED <<fs, dirs, pc, api, df, gs, result, log, pre, args, ncalls, catalog>>

SpecBar == Init /\ [][RenderBar]_vars

\* A caller that only ever calls download_file, one call after the other.
NextDownloads ==
    \E p \in Procs :
        \/ CallDownloadFile(p)
        \/ Probe(p)
        \/ OpenResume(p)
        \/ OpenFresh(p)
        \/ Header(p)
        \/ ReadChunk(p)
        \/ ReadEmpty(p)
        \/ ReadError(p)
        \/ Reset(p)

SpecDownloads == Init /\ [][NextDownloads]_vars

\* A caller that only ever calls get_sample_data, one call after the other,
\* and nothing else touches the files.
NextSamples ==
    \E p \in Procs :
        \/ CallGetSampleData(p)
        \/ Probe(p)
        \/ OpenResume(p)
        \/ OpenFresh(p)
        \/ Header(p)
        \/ ReadChunk(p)
        \/ ReadEmpty(p)
        \/ ReadError(p)
        \/ Verify(p)
        \/ Load(p)
        \/ Reset(p)

SpecSamples == Init /\ [][NextSamples]_vars

\* Two callers (threads or processes of one user) that may be inside
\* download_file at the same time, over the same file system.
Callers == {1, 2}

InitRace ==
    /\ fs = <<>>
    /\ dirs = {}
    /\ pc = [p \in Callers |-> "idle"]
    /\ api = [p \in Callers |-> "none"]
    /\ df = [p \in Callers |-> NoFrame]
    /\ gs = [p \in Callers |-> NoGs]
    /\ result = [p \in Callers |-> NoResult]
    /\ log = [p \in Callers |-> <<>>]
    /\ pre = [p \in Callers |-> <<>>]
    /\ args = [p \in Callers |-> NoArgs]
    /\ ncalls = 0
    /\ catalog = SAMPLE_DATE_FILES
    /\ stdout = NoText

\* The callers ask for the same small file in the same directory.
CallSame(p) ==
    /\ ncalls < RaceCalls
    /\ CallDownloadFile(p)
    /\ args'[p].url = FitsUrl
    /\ args'[p].data_dir = DATADIR

\* The steps of the callers interleave freely: download_file takes no lock.
NextRace ==
    \E p \in Callers :
        \/ CallSame(p)
        \/ Probe(p)
        \/ OpenResume(p)
        \/ OpenFresh(p)
        \/ Header(p)
        \/ ReadChunk(p)
        \/ ReadEmpty(p)
        \/ ReadError(p)
        \/ Reset(p)

SpecRace == InitRace /\ [][NextRace]_vars

---------------------------------------------------------------------------
(* Vocabulary of the properties *)

Checkable == DOMAIN SAMPLE_DATE_FILES

InDownload(p) == df[p].url # NoUrl
final_path(p) == download_fname(df[p].url, df[p].data_dir)
part_path(p) == temp_fname(df[p].url, df[p].data_dir)

\* download_file has just returned or raised: nothing ran after it.
DfExit(p) ==
    /\ InDownload(p)
    /\ \/ pc[p] = "verify"
       \/ pc[p] = "done" /\ ~Logged(p, "verify") /\ ~Logged(p, "load")
DfReturned(p) == DfExit(p) /\ (pc[p] = "verify" \/ result[p].kind = "return")
DfRaised(p) == DfExit(p) /\ pc[p] = "done" /\ result[p].kind = "raise"

\* The call moved the .part file to the final name.
Moved(p) == DfReturned(p) /\ Logged(p, "empty")
\* The loop ended on the empty read that follows the last byte of the source.
ReadToEnd(p) ==
    \E i \in 1..Len(log[p]) :
        log[p][i].ev = "empty" /\ log[p][i].arg = SourceSize(df[p].url)

RECURSIVE Received(_)
Received(l) ==
    IF l = <<>> THEN 0
    ELSE (IF Head(l).ev = "read" THEN Head(l).arg ELSE 0) + Received(Tail(l))

\* Before the call the .part file held the first K bytes of the source, K < N.
PartWasPrefix(p) ==
    /\ Exists(pre[p], part_path(p))
    /\ \/ pre[p][part_path(p)] = <<>>
       \/ /\ Len(pre[p][part_path(p)]) = 1
          /\ pre[p][part_path(p)][1][1] = "src"
          /\ pre[p][part_path(p)][1][2] = 0
          /\ pre[p][part_path(p)][1][3] < SourceSize(df[p].url)

---------------------------------------------------------------------------
(* Properties *)

\* C1: whenever download_file moves the .part file to the final name, the
\* final file is byte-identical to the complete source.
C1_FinalIsCompleteSource ==
    \A p \in Procs : Moved(p) => fs[final_path(p)] = Source(df[p].url)

C3_ShortCircuit ==
    \A p \in Procs :
        /\ ( /\ pc[p] = "done"
             /\ api[p] \in {"download_file", "copy_file"}
             /\ ~args[p].overwrite
             /\ Exists(pre[p], download_fname(args[p].url, args[p].data_dir)) )
           => /\ result[p] = [kind |-> "return",
                              value |-> download_fname(args[p].url, args[p].data_dir)]
              /\ log[p] = <<>>
              /\ fs = pre[p]
        /\ ( /\ pc[p] = "verify"
             /\ Exists(pre[p], gs[p].path) )
           => log[p] = <<>> /\ fs = pre[p]

C3_Witness ==
    \E p \in Procs :
        /\ pc[p] = "done" /\ api[p] = "download_file" /\ ~args[p].overwrite
        /\ Exists(pre[p], download_fname(args[p].url, args[p].data_dir))
        /\ result[p].kind = "return"
        /\ ncalls >= 2

C5_FailedDownloadLeavesNothing ==
    \A p \in Procs :
        (DfRaised(p) /\ df[p].local_file # "None")
        => ~Exists(fs, final_path(p)) /\ ~Exists(fs, part_path(p))

\* C6: when the reachability probe fails, the final file and the .part file
\* are exactly as they were before the call.
C6_UnreachableNoSideEffect ==
    \A p \in Procs :
        (pc[p] = "done" /\ result[p] = [kind |-> "raise", value |-> <<"ValueError">>])
        => fs = pre[p]

\* C7: for an entry with a declared digest the loader is called only on a file
\* whose digest is the declared one; on a mismatch the call fails with the
\* checksum error and the loader is not called.
C7_LoadOnlyVerified ==
    \A p \in Procs :
        ( /\ api[p] = "get_sample_data"
          /\ gs[p].dataset_name \in Checkable
          /\ SAMPLE_DATE_FILES[gs[p].dataset_name]["md5sum"] # None
          /\ pc[p] \in {"load", "done"} )
        => /\ (pc[p] = "load" \/ Logged(p, "load"))
                 => /\ Exists(fs, gs[p].path)
                    /\ md5_sum_file(fs[gs[p].path])
                          = SAMPLE_DATE_FILES[gs[p].dataset_name]["md5sum"]
           /\ ( /\ gs[p].path # <<>>
                /\ Exists(fs, gs[p].path)
                /\ md5_sum_file(fs[gs[p].path])
                      # SAMPLE_DATE_FILES[gs[p].dataset_name]["md5sum"] )
                 => /\ ~Logged(p, "load")
                    /\ result[p] = [kind |-> "raise", value |->
                                      <<"Exception: checksum verification has failed">>]

\* The file was there before the call, damaged, and the call refused it.
C7_Witness ==
    \E p \in Procs :
        /\ api[p] = "get_sample_data" /\ pc[p] = "done"
        /\ gs[p].path # <<>>
        /\ Exists(pre[p], gs[p].path)
        /\ pre[p][gs[p].path][1][1] = "junk"
        /\ result[p].kind = "raise"
        /\ ~Logged(p, "load")

\* C8: after a successful get_sample_data(name, datadir) the file exists at
\* <datadir>/<basename of the locator>.
C8_FileUnderDestDir ==
    \A p \in Procs :
        (api[p] = "get_sample_data" /\ pc[p] = "done" /\ result[p].kind = "return")
        => Exists(fs, download_fname(args[p].url, gs[p].datadir))

\* C9: within one top-level call the restart from scratch is entered at most
\* once, runs with resume=False and overwrite=False, and makes no ranged
\* request: the recursion is at most one deep.
C9_SingleFallback ==
    \A p \in Procs :
        /\ df[p].depth <= 1
        /\ Count(p, "fallback") <= 1
        /\ df[p].depth = 1 => ~df[p].resume /\ ~df[p].overwrite
        /\ \A i, j \in 1..Len(log[p]) :
              (i < j /\ log[p][i].ev = "fallback" /\ log[p][j].ev = "request")
              => log[p][j].arg = -1

C9_Witness ==
    \E p \in Procs : df[p].depth = 1 /\ pc[p] = "read" /\ Count(p, "fallback") = 1

\* C10: the range request is rejected and the transfer from scratch runs to
\* the end of the source: the call returns the final path, the final file is
\* the complete source and no .part file remains.
C10_FallbackSucceeds ==
    \A p \in Procs :
        (DfExit(p) /\ df[p].depth = 1 /\ ReadToEnd(p))
        => /\ DfReturned(p)
           /\ api[p] = "download_file"
                 => result[p] = [kind |-> "return", value |-> final_path(p)]
           /\ api[p] = "get_sample_data" => gs[p].path = final_path(p)
           /\ fs[final_path(p)] = Source(df[p].url)
           /\ ~Exists(fs, part_path(p))

C10_Witness ==
    \E p \in Procs :
        /\ DfReturned(p) /\ df[p].depth = 1 /\ ReadToEnd(p)
        /\ Exists(pre[p], part_path(p))
        /\ Size(pre[p][part_path(p)]) = chunk_size
        /\ fs[final_path(p)] = Source(df[p].url)

\* The events of the acquisition stage.
AcquireEvents == {"probe", "request", "200", "206", "HTTPError", "URLError",
                  "fallback", "length", "nolength", "read", "progress", "empty",
                  "error", "copy"}

\* C11: a get_sample_data call runs acquisition (copy or download), then the
\* checksum only when a digest is declared, then the loader: the loader is
\* called once per successful call, after every other stage, and a call that
\* fails runs no later stage.
C11_StageOrder ==
    \A p \in Procs :
        (api[p] = "get_sample_data" /\ gs[p].dataset_name \in Checkable)
        => LET l == log[p]
               declared == SAMPLE_DATE_FILES[gs[p].dataset_name]["md5sum"] # None
           IN /\ Count(p, "load") <= 1 /\ Count(p, "verify") <= 1
              /\ \A i \in 1..Len(l) : l[i].ev = "load" => i = Len(l)
              /\ \A i, j \in 1..Len(l) :
                    (i < j /\ l[i].ev = "verify") => l[j].ev = "load"
              /\ \A i \in 1..Len(l) : l[i].ev \in AcquireEvents \cup {"verify", "load"}
              /\ (Logged(p, "verify") \/ Logged(p, "load") \/ pc[p] \in {"verify", "load"})
                    => gs[p].path # <<>> /\ Exists(fs, gs[p].path)
              /\ (Logged(p, "load") \/ pc[p] = "load") => (declared <=> Logged(p, "verify"))
              /\ ~declared => ~Logged(p, "verify")
              /\ (pc[p] = "done" /\ result[p].kind = "return")
                    => Count(p, "load") = 1 /\ result[p].value = gs[p].path
              /\ (pc[p] = "done" /\ result[p].kind = "raise")
                    => /\ ~Logged(p, "load")
                       /\ Logged(p, "verify")
                             <=> result[p].value =
                                    <<"Exception: checksum verification has failed">>

C11_Witness ==
    \E p \in Procs :
        /\ api[p] = "get_sample_data" /\ pc[p] = "done" /\ result[p].kind = "return"
        /\ Logged(p, "read") /\ Logged(p, "verify") /\ Logged(p, "load")

\* C12: for a name that is not in the catalog get_sample_data fails with the
\* "no sample data" error, which lists every name of the catalog, and does no
\* copy, no download, no checksum, no load and changes no file.
C12_UnknownName ==
    \A p \in Procs :
        (api[p] = "get_sample_data" /\ gs[p].dataset_name \notin DOMAIN SAMPLE_DATE_FILES)
        => /\ pc[p] = "done"
           /\ result[p].kind = "raise"
           /\ result[p].value[1] = "Exception: no sample data available"
           /\ result[p].value[2] = DOMAIN SAMPLE_DATE_FILES
           /\ log[p] = <<>>
           /\ ~InDownload(p)
           /\ gs[p].path = <<>>
           /\ fs = pre[p]

C12_Witness ==
    \E p \in Procs :
        /\ api[p] = "get_sample_data" /\ gs[p].dataset_name = "no-such-data"
        /\ pc[p] = "done" /\ result[p].kind = "raise"
        /\ fs # <<>>

LoopExit(p) == ~Logged(p, "empty") /\ Logged(p, "empty")'

\* C14: across a transfer with a known total size, bytes_so_far never
\* decreases, and it equals total_size when the transfer loop exits.
C14_ProgressMonotone ==
    [][\A p \in Procs :
          /\ (/\ InDownload(p)
              /\ df'[p].url = df[p].url /\ df'[p].depth = df[p].depth
              /\ IsInt(df'[p].total_size))
                => df'[p].bytes_so_far >= df[p].bytes_so_far
          /\ (LoopExit(p) /\ IsInt(df[p].total_size))
                => df'[p].bytes_so_far = df[p].total_size[2]]_vars

\* The call ended on the integrity error of line 146.
ChecksumError(p) ==
    /\ pc[p] = "done"
    /\ result[p] = [kind |-> "raise",
                    value |-> <<"Exception: checksum verification has failed">>]

\* C15: the step of get_sample_data that finds the digest wrong changes no
\* file; after it the file at the resolved path is still there, with the
\* content that failed the check, and the call has raised without running
\* the loader.
C15_MismatchKeepsFile ==
    /\ [][\A p \in Procs : (~ChecksumError(p) /\ ChecksumError(p)') => fs' = fs]_vars
    /\ [](\A p \in Procs :
             ChecksumError(p)
             => /\ Exists(fs, gs[p].path)
                /\ md5_sum_file(fs[gs[p].path]) # gs[p].dataset["md5sum"]
                /\ ~Logged(p, "load")
                /\ "url" \in DOMAIN gs[p].dataset)

C15_Witness ==
    \E p \in Procs :
        /\ ChecksumError(p)
        /\ Exists(fs, gs[p].path)
        /\ fs[gs[p].path] # <<>>

\* download_file is past its transfer: it returned or raised, whatever
\* get_sample_data did afterwards.
DfLeft(p) == InDownload(p) /\ pc[p] \in {"verify", "load", "done"}

\* C16: once download_file has returned or raised, the handle on the .part
\* file is not open: it was never opened (short-circuit, unreachable url,
\* refused request) or it has been closed (after the move, after a transfer
\* error).
C16_HandleClosed ==
    \A p \in Procs :
        /\ InDownload(p) => (df[p].local_file = "open" <=> pc[p] \in {"header", "read"})
        /\ DfLeft(p)
              => df[p].local_file =
                    (IF Logged(p, "200") \/ Logged(p, "206") THEN "closed" ELSE "None")

C16_Witness ==
    \E p \in Procs :
        /\ DfRaised(p)
        /\ Logged(p, "read") /\ Logged(p, "error")
        /\ df[p].local_file = "closed"

\* The bytes the current call has read from the response, as file content.
ReceivedContent(p) == Slice(Source(df[p].url), 0, Received(log[p]))

\* C17: a download_file call with overwrite=True has neither the final file
\* nor the .part file on disk when the transfer starts, sends no range
\* request and takes no fallback, whatever resume is; the .part file and then
\* the final file hold the bytes received in this call and nothing else.
C17_OverwriteDropsResume ==
    \A p \in Procs :
        (api[p] = "download_file" /\ InDownload(p) /\ args[p].overwrite)
        => /\ df[p].overwrite /\ df[p].depth = 0
           /\ ~Logged(p, "206") /\ ~Logged(p, "fallback")
           /\ \A i \in 1..Len(log[p]) : log[p][i].ev = "request" => log[p][i].arg = -1
           /\ pc[p] \in {"probe", "open"}
                 => ~Exists(fs, final_path(p)) /\ ~Exists(fs, part_path(p))
           /\ pc[p] \in {"header", "read"}
                 => ~Exists(fs, final_path(p)) /\ fs[part_path(p)] = ReceivedContent(p)
           /\ Moved(p)
                 => fs[final_path(p)] = ReceivedContent(p) /\ ~Exists(fs, part_path(p))

C17_Witness ==
    \E p \in Procs :
        /\ api[p] = "download_file" /\ args[p].overwrite /\ args[p].resume
        /\ Exists(pre[p], final_path(p))
        /\ Exists(pre[p], part_path(p)) /\ pre[p][part_path(p)] # <<>>
        /\ Moved(p) /\ Received(log[p]) > 0

NetworkEvents == {"probe", "request", "200", "206", "HTTPError", "URLError",
                  "fallback", "length", "nolength", "read", "progress", "empty",
                  "error"}

\* C18: a get_sample_data call for a catalogued name whose locator is an
\* existing local file runs copy_file and nothing of download_file (no probe,
\* no request, no read); any other locator runs download_file, entered with
\* resume=True and overwrite=False, and never copy_file.
C18_CopyOrDownload ==
    \A p \in Procs :
        (api[p] = "get_sample_data" /\ gs[p].dataset_name \in DOMAIN SAMPLE_DATE_FILES)
        => IF gs[p].isfile
           THEN /\ ~InDownload(p)
                /\ \A i \in 1..Len(log[p]) : log[p][i].ev \notin NetworkEvents
                /\ Exists(fs, gs[p].path) /\ ~Exists(pre[p], gs[p].path)
                      => Logged(p, "copy")
           ELSE /\ InDownload(p)
                /\ df[p].url = args[p].url
                /\ ~Logged(p, "copy")
                /\ IF df[p].depth = 0
                   THEN df[p].resume /\ ~df[p].overwrite /\ ~Logged(p, "fallback")
                   ELSE df[p].depth = 1 /\ Count(p, "fallback") = 1

C18_Witness ==
    \E p \in Procs :
        /\ api[p] = "get_sample_data" /\ gs[p].isfile
        /\ Logged(p, "copy") /\ Logged(p, "load")
        /\ result[p].kind = "return"
        /\ fs[gs[p].path] = Source(args[p].url)

\* C19: whatever calls were made, the catalog holds for every name the
\* locator, the digest and the loader options it was created with.
C19_CatalogReadOnly ==
    /\ DOMAIN catalog = DOMAIN SAMPLE_DATE_FILES
    /\ \A n \in DOMAIN SAMPLE_DATE_FILES :
          /\ DOMAIN catalog[n] = DOMAIN SAMPLE_DATE_FILES[n]
          /\ \A k \in DOMAIN SAMPLE_DATE_FILES[n] : catalog[n][k] = SAMPLE_DATE_FILES[n][k]

C19_Witness ==
    \E p \in Procs :
        /\ api[p] = "get_sample_data" /\ pc[p] = "done" /\ Logged(p, "load")
        /\ ncalls >= 2
        /\ DOMAIN gs[p].dataset = DOMAIN SAMPLE_DATE_FILES[gs[p].dataset_name] \ {"url", "md5sum"}
        /\ catalog = SAMPLE_DATE_FILES

\* The current download_file frame took the resume branch: it sent a range
\* request and did not fall back.
Resumed(p) ==
    /\ ~Logged(p, "fallback")
    /\ \E i \in 1..Len(log[p]) : log[p][i].ev = "request" /\ log[p][i].arg >= 0

\* bytes_so_far when the .part file is opened: its size in the resume branch
\* (opened for append), 0 in the fresh branch (created or truncated).
StartCount(p) == IF Resumed(p) THEN Size(pre[p][part_path(p)]) ELSE 0

\* C20: from the opening of the .part file to the end of the loop, and after
\* a transfer error, bytes_so_far is the number of bytes in the .part file;
\* it is the size the file had when it was opened plus the lengths of the
\* chunks read since.
C20_CountIsPartSize ==
    \A p \in Procs :
        /\ (InDownload(p) /\ pc[p] \in {"header", "read"})
              => /\ Exists(fs, part_path(p))
                 /\ df[p].bytes_so_far = Size(fs[part_path(p)])
                 /\ df[p].bytes_so_far = StartCount(p) + Received(log[p])
                 /\ pc[p] = "header" => df[p].bytes_so_far = StartCount(p)
        /\ (DfRaised(p) /\ Logged(p, "error"))
              => df[p].bytes_so_far = Size(fs[part_path(p)])
        /\ Moved(p)
              => df[p].bytes_so_far = Size(fs[final_path(p)])

C20_Witness ==
    \E p \in Procs :
        /\ InDownload(p) /\ pc[p] = "read" /\ Resumed(p)
        /\ Size(pre[p][part_path(p)]) > 0
        /\ Received(log[p]) > 0
        /\ df[p].bytes_so_far = Size(fs[part_path(p)])

\* C21: for every ratio >= 0 the bar progress_bar draws is bar_length
\* segments wide, with round(ratio * bar_length) of them filled when
\* ratio <= 1 and all of them filled when ratio > 1.
C21_FixedWidthBar ==
    stdout # NoText
    => /\ stdout.filled + stdout.empty = bar_length
       /\ stdout.filled =
             (IF stdout.ratio[1] <= stdout.ratio[2]
              THEN Round(bar_length * stdout.ratio[1], stdout.ratio[2])
              ELSE bar_length)

\* Two invocations of download_file for the same url and directory.
SameTarget(p, q) ==
    /\ p # q
    /\ InDownload(p) /\ InDownload(q)
    /\ df[p].url = df[q].url /\ df[p].data_dir = df[q].data_dir

\* C22: two invocations for the same url and directory name the same .part
\* file, and an invocation about to open it can open it while the other
\* holds it open: nothing makes it wait.
C22_NoLockOnPart ==
    \A p \in Callers : \A q \in Callers :
        SameTarget(p, q)
        => /\ part_path(p) = part_path(q)
           /\ (pc[p] = "open" /\ df[q].local_file = "open")
                 => ENABLED ((OpenResume(p) \/ OpenFresh(p)) /\ df'[p].local_file = "open")

\* Both invocations hold the same .part file open for writing.
C22_Witness ==
    \E p \in Callers : \E q \in Callers :
        /\ SameTarget(p, q)
        /\ df[p].local_file = "open" /\ df[q].local_file = "open"
        /\ Exists(fs, part_path(p))

\* The final file and its .part file are both on disk, for some url and
\* directory.
BothOnDisk ==
    \E url \in Urls, data_dir \in Dirs :
        /\ Exists(fs, download_fname(url, data_dir))
        /\ Exists(fs, temp_fname(url, data_dir))

\* C23: with download_file the only thing called, one call after the other
\* from an empty directory, no final file has its .part file beside it
\* between calls or once a call has returned or raised; and a call that
\* returned left the final file it names on disk and no .part file.
C23_FinalXorPart ==
    \A p \in Procs :
        /\ pc[p] \in {"idle", "done"} => ~BothOnDisk
        /\ (pc[p] = "done" /\ result[p].kind = "return")
              => /\ result[p].value = final_path(p)
                 /\ Exists(fs, final_path(p))
                 /\ ~Exists(fs, part_path(p))

C23_Witness ==
    \E p \in Procs :
        /\ pc[p] = "done" /\ result[p].kind = "return"
        /\ ncalls >= 2
        /\ Exists(pre[p], part_path(p)) /\ pre[p][part_path(p)] # <<>>
        /\ Moved(p)
        /\ Exists(fs, final_path(p)) /\ ~Exists(fs, part_path(p))

\* The path get_sample_data resolves for a catalogued name.
Target(n) == download_fname(Format(SAMPLE_DATE_FILES[n]["url"]), DATADIR)

\* In file system f the file of name n is there and fails the name's digest.
FailsDigest(f, n) ==
    /\ SAMPLE_DATE_FILES[n]["md5sum"] # None
    /\ Exists(f, Target(n))
    /\ md5_sum_file(f[Target(n)]) # SAMPLE_DATE_FILES[n]["md5sum"]

\* C24: with get_sample_data the only thing that touches the files, (1) a
\* call that ends on the integrity error leaves a file that fails the digest,
\* (2) no later step replaces or removes such a file, and (3) a call that
\* starts with such a file on disk opens no connection, does not load, and
\* ends on the integrity error again.
C24_MismatchRepeats ==
    /\ [](\A p \in Procs : ChecksumError(p) => FailsDigest(fs, gs[p].dataset_name))
    /\ [][\A n \in Checkable :
             FailsDigest(fs, n)
             => Exists(fs', Target(n)) /\ fs'[Target(n)] = fs[Target(n)]]_vars
    /\ [](\A p \in Procs :
             (/\ api[p] = "get_sample_data"
              /\ gs[p].dataset_name \in Checkable
              /\ FailsDigest(pre[p], gs[p].dataset_name))
             => /\ \A i \in 1..Len(log[p]) : log[p][i].ev \notin NetworkEvents
                /\ ~Logged(p, "load")
                /\ gs[p].path = Target(gs[p].dataset_name)
                /\ pc[p] \in {"verify", "done"}
                /\ pc[p] = "done" => ChecksumError(p))

C24_Witness ==
    \E p \in Procs :
        /\ ncalls >= 2
        /\ ChecksumError(p)
        /\ FailsDigest(pre[p], gs[p].dataset_name)
        /\ fs = pre[p]

====
